---------------------------- MODULE Spec2Model ----------------------------
(***************************************************************************)
(* Model of the real-estate index dashboard.                               *)
(*                                                                         *)
(*   src/app.py                 the Streamlit script: the cached sample    *)
(*                              table, the date filter, the change table   *)
(*                              and the normalised comparison.             *)
(*   src/data/data_fetcher.py   DataFetcher: the source registry, the      *)
(*                              dispatch on the source type, the batch     *)
(*                              fetch and the last-update date.            *)
(*                                                                         *)
(* The two components share no state (nothing in app.py imports the        *)
(* fetcher), so each has a specification of its own next to the combined   *)
(* one.                                                                    *)
(***************************************************************************)
EXTENDS Integers, Sequences, FiniteSets

VARIABLES
    (* ---- src/app.py ---- *)
    cache,              \* st.cache_data entry of load_sample_data: None or Some(table)
    pc,                 \* "idle" between script runs, "rendered" after main()
    df,                 \* main: df = load_sample_data()
    selected_indices,   \* main: the multiselect's list
    date_range,         \* main: the date_input's tuple
    filtered_df,        \* main: the date-filtered table
    change_df,          \* main: the change table shown in tab 1
    normalized_df,      \* main: the normalised table plotted in tab 3
    error,              \* the exception that ended main(), "none" if it ran through
    consumers,          \* the computations main() entered with filtered_df
    last_load,          \* history: what the latest load_sample_data() call returned
    prev_load,          \* history: what the call before it returned, None right after a clear
    generated,          \* history: how often the body of load_sample_data ran since then
    (* ---- src/data/data_fetcher.py ---- *)
    sources,            \* DataFetcher.sources: index name -> source type
    fpc,                \* fetch_index_data: "idle", "Pending", "Fetching", "Succeeded", "Failed", "Raised"
    fname,              \* fetch_index_data: the index_name argument
    caller,             \* who called fetch_index_data: "user" or "fetch_all"
    fret,               \* fetch_index_data: the value returned, None or Some(frame)
    entered,            \* the _fetch_from_* methods the call entered
    log,                \* the logger.error record of the call, "none" without one
    apc,                \* fetch_all_indices: "idle", "loop", "done"
    it,                 \* fetch_all_indices: position of the for loop in the registry
    all_data,           \* fetch_all_indices: the frames collected
    combined,           \* fetch_all_indices: the value returned, None before
    visited,            \* history: the fetch_index_data calls of the running batch
    clock,              \* the date datetime.now() reads
    last_success,       \* history: index name -> date of its last successful fetch, 0 for none
    lu_arg,             \* get_last_update_date: the argument, None for "all"
    lu_ret              \* get_last_update_date: the value returned, 0 before any call

appVars == <<cache, pc, df, selected_indices, date_range, filtered_df,
             change_df, normalized_df, error, consumers, last_load, prev_load, generated>>

fetchVars == <<sources, fpc, fname, caller, fret, entered, log, apc, it,
               all_data, combined, visited, clock, last_success, lu_arg, lu_ret>>

vars == <<appVars, fetchVars>>

(***************************************************************************)
(* Bounds of the model.                                                    *)
(***************************************************************************)
\* rows of the sample table (the code generates 72 month ends)
NumDates == 2
\* cell values are drawn from 0..MaxValue
MaxValue == 1
\* the dates the clock runs through are 1..MaxClock
MaxClock == 2

(***************************************************************************)
(* Optional values: None, or a value wrapped in a one-element tuple.       *)
(***************************************************************************)
None == <<>>
Some(x) == <<x>>

(***************************************************************************)
(* Floating point values as fractions num/den with den >= 0.  den = 0 are  *)
(* the IEEE specials numpy produces on a division by zero: 1/0 is inf,     *)
(* -1/0 is -inf and 0/0 is nan.  Rounding error of finite operations is    *)
(* not modelled.                                                           *)
(***************************************************************************)
Abs(n) == IF n < 0 THEN -n ELSE n
Sign(n) == IF n < 0 THEN -1 ELSE IF n > 0 THEN 1 ELSE 0

RECURSIVE Gcd(_, _)
Gcd(a, b) == IF b = 0 THEN a ELSE Gcd(b, a % b)

Frac(n, d) ==
    IF d = 0 THEN [num |-> Sign(n), den |-> 0]
    ELSE LET s == IF d < 0 THEN -1 ELSE 1
             g == Gcd(Abs(n), Abs(d))
         IN [num |-> (s * n) \div g, den |-> (s * d) \div g]

FromInt(n) == [num |-> n, den |-> 1]
IsNaN(x) == x.den = 0 /\ x.num = 0

\* x / y on float64: a finite x over zero is +-inf, zero over zero is nan
FDiv(x, y) ==
    IF IsNaN(x) \/ IsNaN(y) THEN [num |-> 0, den |-> 0]
    ELSE Frac(x.num * y.den, x.den * y.num)

FMul(x, y) ==
    IF IsNaN(x) \/ IsNaN(y) THEN [num |-> 0, den |-> 0]
    ELSE IF x.den = 0 \/ y.den = 0
         THEN [num |-> Sign(x.num) * Sign(y.num), den |-> 0]
         ELSE Frac(x.num * y.num, x.den * y.den)

FSub(x, y) == Frac(x.num * y.den - y.num * x.den, x.den * y.den)

\* round(x, 2): to two decimals, ties to even; inf and nan pass through
Round2(x) ==
    IF x.den = 0 THEN x
    ELSE LET s == x.num * 100
             f == s \div x.den
             r == s % x.den
             n == IF 2 * r < x.den THEN f
                  ELSE IF 2 * r > x.den THEN f + 1
                  ELSE IF f % 2 = 0 THEN f ELSE f + 1
         IN Frac(n, 100)

(***************************************************************************)
(* Tables (pandas DataFrames): an ascending index of timestamps and one    *)
(* value sequence of the same length per column.                           *)
(***************************************************************************)
\* load_sample_data: the column names, in the order of the DataFrame
indices == <<"tokyo_office_rent", "jreit">>
Columns == {indices[i] : i \in 1..Len(indices)}

\* Row i of date_range(freq='M') is a month end; the days in between are
\* dates the date_input can deliver, so timestamps are the odd numbers.
Timestamp(i) == 2 * i - 1
dates == [i \in 1..NumDates |-> Timestamp(i)]
Days == Timestamp(1)..Timestamp(NumDates)

Values == 0..MaxValue

\* values = base + trend + seasonal + noise with noise ~ N(0, 3): unbounded,
\* so every number is a possible cell; the model draws the sum itself.
Tables ==
    {[index |-> dates, cols |-> c] : c \in [Columns -> [1..NumDates -> Values]]}

\* df.loc[mask]: the rows whose mask entry is true, in order, all columns kept
Loc(T, m) ==
    LET keep == SelectSeq([i \in 1..Len(T.index) |-> i], LAMBDA i : m[i])
    IN [index |-> [k \in 1..Len(keep) |-> T.index[keep[k]]],
        cols  |-> [c \in DOMAIN T.cols |->
                      [k \in 1..Len(keep) |-> T.cols[c][keep[k]]]]]

(***************************************************************************)
(* src/app.py: load_sample_data, memoised by st.cache_data.                *)
(***************************************************************************)
\* (mutant) the decorator dropped: every call runs the body
load_sample_data_uncached(c) == Tables

\* The tables a call may return: with an entry cached, that entry; without,
\* whatever the body generates.
load_sample_data(c) == IF c = None THEN Tables ELSE {c[1]}

(***************************************************************************)
(* src/app.py: main, the date filter.                                      *)
(***************************************************************************)
\* (mutant) the end of the range compared with < instead of <=
mask_exclusive_end(T, s, e) ==
    [i \in 1..Len(T.index) |-> T.index[i] >= s /\ T.index[i] < e]

\* mask = (df.index >= Timestamp(start_date)) & (df.index <= Timestamp(end_date))
mask(T, s, e) == [i \in 1..Len(T.index) |-> T.index[i] >= s /\ T.index[i] <= e]

filterByDateRange(T, s, e) == Loc(T, mask(T, s, e))

\* if len(date_range) == 2: ... else: filtered_df = df
filtered(T, dr) == IF Len(dr) = 2 THEN filterByDateRange(T, dr[1], dr[2]) ELSE T

\* the date_input delivers a tuple of up to two dates between the first and
\* the last row
DateRanges ==
    {<<>>} \cup {<<s>> : s \in Days} \cup {<<s, e>> : s \in Days, e \in Days}

\* the multiselect delivers the chosen columns, each once, in the order chosen
Selections ==
    {q \in UNION {[1..n -> Columns] : n \in 0..Len(indices)} :
        \A i, j \in DOMAIN q : i # j => q[i] # q[j]}

(***************************************************************************)
(* src/app.py: main, tab 1: the change over the period.                    *)
(***************************************************************************)
\* percent_change = ((end_value - start_value) / start_value) * 100
percent_change(start_value, end_value) ==
    FMul(FDiv(FSub(FromInt(end_value), FromInt(start_value)),
              FromInt(start_value)),
         FromInt(100))

\* one row of change_data; iloc[0] and iloc[-1] need a row
change_row(F, idx) ==
    LET col == F.cols[idx]
        start_value == col[1]
        end_value == col[Len(col)]
    IN [name  |-> idx,
        start |-> Round2(FromInt(start_value)),
        end   |-> Round2(FromInt(end_value)),
        pct   |-> Round2(percent_change(start_value, end_value))]

\* tab 1 runs the loop when something is selected; iloc[0] on a table
\* without rows raises IndexError in its first iteration
Tab1Raises(F, sel) == Len(sel) > 0 /\ Len(F.index) = 0

change_data(F, sel) == [k \in 1..Len(sel) |-> change_row(F, sel[k])]

(***************************************************************************)
(* src/app.py: main, tab 3: the normalised comparison.                     *)
(***************************************************************************)
\* (mutant) iloc[-1] as the base instead of iloc[0]
normalize_column_by_last(F, idx) ==
    LET col == F.cols[idx]
    IN [k \in 1..Len(col) |->
           FMul(FDiv(FromInt(col[k]), FromInt(col[Len(col)])), FromInt(100))]

\* (filtered_df[idx] / filtered_df[idx].iloc[0]) * 100
normalize_column(F, idx) ==
    LET col == F.cols[idx]
    IN [k \in 1..Len(col) |->
           FMul(FDiv(FromInt(col[k]), FromInt(col[1])), FromInt(100))]

normalized(F, sel) ==
    [index |-> F.index,
     cols  |-> [c \in {sel[k] : k \in 1..Len(sel)} |-> normalize_column(F, c)]]

(***************************************************************************)
(* src/app.py: main, one run of the script.                                *)
(***************************************************************************)
\* The table is loaded, the widgets deliver the selection and the range, the
\* table is filtered, and the tabs run in order; an exception in tab 1 ends
\* the run.  Tab 2 (the table view and its CSV) and the correlation matrix
\* of tab 3 raise nothing and feed nothing else: of them only the fact that
\* the correlation ran is kept.
main ==
    /\ pc = "idle"
    /\ \E T \in load_sample_data(cache), sel \in Selections, dr \in DateRanges :
         LET F == filtered(T, dr)
             raises == Tab1Raises(F, sel)
         IN /\ cache' = Some(T)
            /\ prev_load' = last_load
            /\ last_load' = Some(T)
            /\ generated' = IF cache = None THEN generated + 1 ELSE generated
            /\ df' = Some(T)
            /\ selected_indices' = sel
            /\ date_range' = dr
            /\ filtered_df' = Some(F)
            /\ error' = IF raises THEN "IndexError" ELSE "none"
            /\ change_df' =
                   IF Len(sel) > 0 /\ ~raises THEN Some(change_data(F, sel)) ELSE None
            /\ normalized_df' =
                   IF Len(sel) >= 2 /\ ~raises THEN Some(normalized(F, sel)) ELSE None
            /\ consumers' =
                   (IF Len(sel) > 0 THEN {"change_summary"} ELSE {})
                   \cup (IF Len(sel) >= 2 /\ ~raises
                         THEN {"correlation", "normalization"} ELSE {})
    /\ pc' = "rendered"
    /\ UNCHANGED fetchVars

\* the script has ended: its locals are gone, the cache entry stays
ScriptEnd ==
    /\ pc = "rendered"
    /\ pc' = "idle"
    /\ df' = None
    /\ selected_indices' = <<>>
    /\ date_range' = <<>>
    /\ filtered_df' = None
    /\ change_df' = None
    /\ normalized_df' = None
    /\ error' = "none"
    /\ consumers' = {}
    /\ UNCHANGED <<cache, last_load, prev_load, generated>>
    /\ UNCHANGED fetchVars

\* st.cache_data's entry is dropped (the "Clear cache" command)
ClearCache ==
    /\ pc = "idle"
    /\ cache # None
    /\ cache' = None
    /\ last_load' = None
    /\ prev_load' = None
    /\ generated' = 0
    /\ UNCHANGED <<pc, df, selected_indices, date_range, filtered_df,
                   change_df, normalized_df, error, consumers>>
    /\ UNCHANGED fetchVars

AppInit ==
    /\ cache = None
    /\ pc = "idle"
    /\ df = None
    /\ selected_indices = <<>>
    /\ date_range = <<>>
    /\ filtered_df = None
    /\ change_df = None
    /\ normalized_df = None
    /\ error = "none"
    /\ consumers = {}
    /\ last_load = None
    /\ prev_load = None
    /\ generated = 0

(***************************************************************************)
(* src/data/data_fetcher.py: the registry.                                 *)
(***************************************************************************)
\* self.sources, in insertion order (get_available_indices)
source_order == <<"tokyo_office_rent", "japan_housing_price", "jreit">>
SourceNames == {source_order[i] : i \in 1..Len(source_order)}

\* the "type" of each source as __init__ writes it
constructed_sources ==
    [n \in SourceNames |->
        IF n = "tokyo_office_rent" THEN "csv_url"
        ELSE IF n = "japan_housing_price" THEN "web_scrape"
        ELSE "api"]

\* the types fetch_index_data dispatches on
SourceTypes == {"csv_url", "web_scrape", "api"}

\* Registries: each descriptor as written, or carrying a type string the
\* dispatch does not know (the descriptors are configuration data).
Registries ==
    {r \in [SourceNames -> SourceTypes \cup {"ftp"}] :
        \A n \in SourceNames : r[n] \in {constructed_sources[n], "ftp"}}

\* index names a caller may ask for: the registered ones and one that is not
RequestNames == SourceNames \cup {"unregistered"}

(***************************************************************************)
(* src/data/data_fetcher.py: fetch_index_data.                             *)
(***************************************************************************)
\* the frame a _fetch_from_* method builds: one column named index_name
\* over a date_range of the method's frequency
fetch_from(type, index_name) ==
    [column |-> index_name,
     freq   |-> IF type = "csv_url" THEN "M"
                ELSE IF type = "web_scrape" THEN "Q" ELSE "B"]

\* (mutant) the final else taken as the api branch
dispatch_else_api(type) ==
    IF type \in {"csv_url", "web_scrape"} THEN type ELSE "api"

\* the if/elif chain on source["type"]: the branch taken
dispatch(type) == IF type \in SourceTypes THEN type ELSE "unsupported"

\* (mutant) no except clause: the exception leaves fetch_index_data
no_except == [pc |-> "Raised", log |-> "none"]

\* except Exception as e: logger.error(...); return None
except_Exception == [pc |-> "Failed", log |-> "exception"]

\* the three return None statements
return_undefined == None
return_unsupported == None
return_on_exception == None

\* a caller invokes fetch_index_data(index_name)
fetch_index_data(index_name) ==
    /\ UNCHANGED appVars
    /\ fpc = "idle"
    /\ apc # "loop"
    /\ fpc' = "Pending"
    /\ fname' = index_name
    /\ caller' = "user"
    /\ fret' = None
    /\ entered' = {}
    /\ log' = "none"
    /\ UNCHANGED <<sources, apc, it, all_data, combined, visited, clock,
                   last_success, lu_arg, lu_ret>>

\* if index_name not in self.sources: ... return None; else the source is
\* looked up and the fetch starts
fetch_lookup ==
    /\ UNCHANGED appVars
    /\ fpc = "Pending"
    /\ IF fname \notin DOMAIN sources
       THEN /\ fpc' = "Failed"
            /\ fret' = return_undefined
            /\ log' = "undefined_index"
       ELSE /\ fpc' = "Fetching"
            /\ UNCHANGED <<fret, log>>
    /\ UNCHANGED <<sources, fname, caller, entered, apc, it, all_data,
                   combined, visited, clock, last_success, lu_arg, lu_ret>>

\* the try block: the branch of the source's type runs its method, which
\* returns a frame or raises; an unknown type logs and returns None
fetch_dispatch ==
    /\ UNCHANGED appVars
    /\ fpc = "Fetching"
    /\ LET branch == dispatch(sources[fname])
       IN IF branch = "unsupported"
          THEN /\ fpc' = "Failed"
               /\ fret' = return_unsupported
               /\ log' = "unsupported_type"
               /\ UNCHANGED <<entered, last_success>>
          ELSE /\ entered' = entered \cup {branch}
               /\ \/ /\ fpc' = "Succeeded"
                     /\ fret' = Some(fetch_from(branch, fname))
                     /\ last_success' = [last_success EXCEPT ![fname] = clock]
                     /\ UNCHANGED log
                  \/ /\ fpc' = except_Exception.pc
                     /\ fret' = return_on_exception
                     /\ log' = except_Exception.log
                     /\ UNCHANGED last_success
    /\ UNCHANGED <<sources, fname, caller, apc, it, all_data, combined,
                   visited, clock, lu_arg, lu_ret>>

\* the caller has the returned value
fetch_return ==
    /\ UNCHANGED appVars
    /\ fpc \in {"Succeeded", "Failed"}
    /\ caller = "user"
    /\ fpc' = "idle"
    /\ fret' = None
    /\ entered' = {}
    /\ log' = "none"
    /\ UNCHANGED <<sources, fname, caller, apc, it, all_data, combined,
                   visited, clock, last_success, lu_arg, lu_ret>>

(***************************************************************************)
(* src/data/data_fetcher.py: fetch_all_indices.                            *)
(***************************************************************************)
\* if df is not None: all_data.append(df)
collect(data, ret) == IF ret # None THEN Append(data, ret[1]) ELSE data

\* (mutant) the loop left at the first failure
next_position_break(i, ret) ==
    IF ret = None THEN Len(source_order) + 1 ELSE i + 1

\* the for loop goes on to the next name whatever the call returned
next_position(i, ret) == i + 1

\* pd.concat(all_data, axis=1), or pd.DataFrame() when nothing was fetched:
\* one column per collected frame, in the order collected
concat(data) == [columns |-> [k \in 1..Len(data) |-> data[k].column]]

\* all_data = []; the for loop starts
fetch_all_indices ==
    /\ UNCHANGED appVars
    /\ apc # "loop"
    /\ fpc = "idle"
    /\ apc' = "loop"
    /\ it' = 1
    /\ all_data' = <<>>
    /\ visited' = <<>>
    /\ combined' = None
    /\ UNCHANGED <<sources, fpc, fname, caller, fret, entered, log, clock,
                   last_success, lu_arg, lu_ret>>

\* df = self.fetch_index_data(index_name)
fetch_all_call ==
    /\ UNCHANGED appVars
    /\ apc = "loop"
    /\ fpc = "idle"
    /\ it <= Len(source_order)
    /\ fpc' = "Pending"
    /\ fname' = source_order[it]
    /\ caller' = "fetch_all"
    /\ fret' = None
    /\ entered' = {}
    /\ log' = "none"
    /\ UNCHANGED <<sources, apc, it, all_data, combined, visited, clock,
                   last_success, lu_arg, lu_ret>>

\* the call is back: the frame is appended if there is one
fetch_all_collect ==
    /\ UNCHANGED appVars
    /\ apc = "loop"
    /\ fpc \in {"Succeeded", "Failed"}
    /\ caller = "fetch_all"
    /\ all_data' = collect(all_data, fret)
    /\ visited' = Append(visited, [name |-> fname, ok |-> fret # None, log |-> log])
    /\ it' = next_position(it, fret)
    /\ fpc' = "idle"
    /\ fret' = None
    /\ entered' = {}
    /\ log' = "none"
    /\ UNCHANGED <<sources, fname, caller, apc, combined, clock,
                   last_success, lu_arg, lu_ret>>

\* the loop is over: the combined frame is returned, and nothing else
fetch_all_return ==
    /\ UNCHANGED appVars
    /\ apc = "loop"
    /\ fpc = "idle"
    /\ it > Len(source_order)
    /\ combined' = Some(concat(all_data))
    /\ apc' = "done"
    /\ UNCHANGED <<sources, fpc, fname, caller, fret, entered, log, it,
                   all_data, visited, clock, last_success, lu_arg, lu_ret>>

(***************************************************************************)
(* src/data/data_fetcher.py: get_last_update_date.                         *)
(***************************************************************************)
\* datetime.now().strftime("%Y-%m-%d"): today's date, whatever index_name is
get_last_update_date(index_name) ==
    /\ UNCHANGED appVars
    /\ fpc = "idle"
    /\ apc # "loop"
    /\ lu_arg' = index_name
    /\ lu_ret' = clock
    /\ UNCHANGED <<sources, fpc, fname, caller, fret, entered, log, apc, it,
                   all_data, combined, visited, clock, last_success>>

\* a day passes
Tick ==
    /\ UNCHANGED appVars
    /\ clock < MaxClock
    /\ clock' = clock + 1
    /\ UNCHANGED <<sources, fpc, fname, caller, fret, entered, log, apc, it,
                   all_data, combined, visited, last_success, lu_arg, lu_ret>>

FetcherInit ==
    /\ fpc = "idle"
    /\ fname = "unregistered"
    /\ caller = "user"
    /\ fret = None
    /\ entered = {}
    /\ log = "none"
    /\ apc = "idle"
    /\ it = 1
    /\ all_data = <<>>
    /\ combined = None
    /\ visited = <<>>
    /\ clock = 1
    /\ last_success = [n \in SourceNames |-> 0]
    /\ lu_arg = None
    /\ lu_ret = 0

(***************************************************************************)
(* Specifications.                                                         *)
(***************************************************************************)
NextApp == main \/ ScriptEnd \/ ClearCache

NextFetch ==
    \/ \E n \in RequestNames : fetch_index_data(n)
    \/ fetch_lookup
    \/ fetch_dispatch
    \/ fetch_return
    \/ fetch_all_indices
    \/ fetch_all_call
    \/ fetch_all_collect
    \/ fetch_all_return

NextClock ==
    \/ \E n \in {None} \cup {Some(m) : m \in SourceNames} : get_last_update_date(n)
    \/ Tick

\* the program: the registry as __init__ builds it
Init == AppInit /\ FetcherInit /\ sources = constructed_sources
Next == NextApp \/ NextFetch \/ NextClock
Spec == Init /\ [][Next]_vars

\* the dashboard alone
SpecApp == Init /\ [][NextApp]_vars

\* the fetcher alone, over every registry
InitFetch == AppInit /\ FetcherInit /\ sources \in Registries
SpecFetch == InitFetch /\ [][NextFetch]_vars

\* a call that has started runs to its return: the code is synchronous
FairSpecFetch ==
    SpecFetch /\ WF_vars(fetch_lookup) /\ WF_vars(fetch_dispatch)

\* the fetcher with the clock and get_last_update_date
NextFetcher == NextFetch \/ NextClock
SpecFetcher == InitFetch /\ [][NextFetcher]_vars

(***************************************************************************)
(* Properties of src/app.py, checked under SpecApp.                        *)
(***************************************************************************)
Rendered == pc = "rendered"
RangeGiven == Len(date_range) = 2
SelectedSet == {selected_indices[k] : k \in 1..Len(selected_indices)}
InRange(t) == date_range[1] <= t /\ t <= date_range[2]
IndexSet(T) == {T.index[i] : i \in 1..Len(T.index)}

\* C1: with start <= end the filtered table holds exactly the rows of the
\* loaded table whose timestamp lies in [start, end], both ends included:
\* its timestamps are those timestamps of the table, each once and in
\* order, every column is still there, and every cell is the table's cell
\* at that timestamp.
C1_FilterKeepsExactlyInRange ==
    (Rendered /\ RangeGiven /\ date_range[1] <= date_range[2]) =>
        LET T == df[1]
            F == filtered_df[1]
        IN /\ IndexSet(F) = {t \in IndexSet(T) : InRange(t)}
           /\ \A k \in 1..(Len(F.index) - 1) : F.index[k] < F.index[k + 1]
           /\ DOMAIN F.cols = DOMAIN T.cols
           /\ \A c \in DOMAIN F.cols :
                 /\ Len(F.cols[c]) = Len(F.index)
                 /\ \A k \in 1..Len(F.index), i \in 1..Len(T.index) :
                       F.index[k] = T.index[i] => F.cols[c][k] = T.cols[c][i]

\* a range that ends on a row, keeps it and drops another row
C1_Witness ==
    /\ Rendered /\ RangeGiven /\ date_range[1] <= date_range[2]
    /\ date_range[2] \in IndexSet(filtered_df[1])
    /\ Len(filtered_df[1].index) < Len(df[1].index)

\* C2: a range with start > end is refused with InvalidRange: no filtered
\* table exists and nothing is computed from one.
C2_InvertedRangeIsRefused ==
    (Rendered /\ RangeGiven /\ date_range[1] > date_range[2]) =>
        /\ error = "InvalidRange"
        /\ filtered_df = None
        /\ consumers = {}

\* C3: in one change table over the selection, a name whose first in-range
\* value is 0 gets no percent change, and every other name gets
\* (end - start) / start * 100.
C3_ZeroStartIsInvalidOperation ==
    (Rendered /\ Len(selected_indices) >= 2 /\ Len(filtered_df[1].index) >= 2) =>
        /\ change_df # None
        /\ \A c \in SelectedSet :
              LET col == filtered_df[1].cols[c]
                  rows == {k \in 1..Len(change_df[1]) : change_df[1][k].name = c}
              IN IF col[1] = 0
                 THEN rows = {}
                 ELSE /\ Cardinality(rows) = 1
                      /\ \A k \in rows :
                            change_df[1][k].pct =
                                Frac((col[Len(col)] - col[1]) * 100, col[1])

\* C4: a selected name with fewer than 2 rows in the range gets no change
\* summary, and the run does not end in an exception.
C4_FewerThanTwoRowsIsInsufficientData ==
    (Rendered /\ Len(selected_indices) > 0 /\ Len(filtered_df[1].index) < 2) =>
        /\ error = "none"
        /\ change_df # None =>
              \A k \in 1..Len(change_df[1]) : change_df[1][k].name \notin SelectedSet

C8_LoadIsIdempotent ==
    /\ prev_load # None => prev_load = last_load
    /\ last_load # None => last_load = cache
    /\ generated <= 1

\* a second call since the last clear has returned
C8_Witness == Rendered /\ prev_load # None /\ df = prev_load

(***************************************************************************)
(* Properties of src/data/data_fetcher.py.                                 *)
(***************************************************************************)
Terminal == {"Succeeded", "Failed"}
Unsupported(n) == n \in DOMAIN sources /\ sources[n] \notin SourceTypes
VisitedNames == [k \in 1..Len(visited) |-> visited[k].name]
SucceededNames == {visited[k].name : k \in {j \in 1..Len(visited) : visited[j].ok}}
FailedNames == {visited[k].name : k \in {j \in 1..Len(visited) : ~visited[j].ok}}
OkNamesInOrder ==
    LET ok == SelectSeq(visited, LAMBDA v : v.ok)
    IN [k \in 1..Len(ok) |-> ok[k].name]
ColumnSet(frame) == {frame.columns[k] : k \in 1..Len(frame.columns)}
\* the names a returned value reports as failed: those of its error list,
\* if it has one
ReportedFailed(ret) ==
    IF "errors" \in DOMAIN ret
    THEN {ret.errors[k] : k \in 1..Len(ret.errors)}
    ELSE {}

MostRecent(arg) ==
    IF arg = None
    THEN CHOOSE d \in {last_success[n] : n \in SourceNames} :
            \A n \in SourceNames : last_success[n] <= d
    ELSE last_success[arg[1]]

LastUpdateArgs == {None} \cup {Some(n) : n \in SourceNames}

\* C9: get_last_update_date(name) returns the date of the last successful
\* fetch of that name, and with no name that of the last successful fetch
\* of any source (when there has been one).
C9_LastUpdatedIsLastSuccessfulFetch ==
    [][\A a \in LastUpdateArgs :
          (get_last_update_date(a) /\ MostRecent(a) # 0) =>
              lu_ret' = MostRecent(a)]_vars

\* C10: a fetch_index_data call moves Pending -> Fetching -> Succeeded or
\* Failed and nowhere else, going from Pending straight to Failed exactly
\* for a name that is not registered, without entering a strategy; no
\* exception leaves the call: a strategy that raised ends it in Failed with
\* None returned; Succeeded returns the frame of the name; the registry is
\* never changed; and every call that started reaches Succeeded or Failed.
C10_Transitions ==
    {<<"idle", "Pending">>, <<"Pending", "Fetching">>, <<"Pending", "Failed">>,
     <<"Fetching", "Succeeded">>, <<"Fetching", "Failed">>,
     <<"Succeeded", "idle">>, <<"Failed", "idle">>}

C10_StepOk ==
    /\ sources' = sources
    /\ fpc' # fpc =>
          /\ <<fpc, fpc'>> \in C10_Transitions
          /\ (fpc = "Pending" /\ fpc' = "Failed") <=>
                (fpc = "Pending" /\ fname \notin DOMAIN sources)
          /\ (fpc = "Pending" /\ fpc' = "Failed") => entered' = {}
          /\ (fpc' = "Failed" /\ entered' # {}) => log' = "exception"

C10_StateOk ==
    /\ fpc \in {"idle", "Pending", "Fetching"} \cup Terminal
    /\ fpc = "Failed" => fret = None /\ log # "none"
    /\ fpc = "Succeeded" =>
          /\ fret = Some(fetch_from(sources[fname], fname))
          /\ log = "none"
          /\ entered = {sources[fname]}

=============================================================================
